---- MODULE Spec2Model ----
(***************************************************************************)
(* A model of src/src/VegaWrapper.js: the URL sanitizer (sanitizeUrl with  *)
(* sanitizeHost, testHost and _validateExternalService), the loader that   *)
(* wraps it, and the response post-processor (dataParser).                 *)
(*                                                                         *)
(* Strings are sequences of tokens.  A token is one character (" ", "|",   *)
(* "/", ":", a digit, ...), one percent-escape ("%20", "%7C") or one word  *)
(* whose letters are never inspected separately ("wiki", "geoshape").      *)
(* Concatenation is \o, the empty string is << >>.  A host name is the     *)
(* sequence of its labels, <<"en", "wikipedia", "org">>.  An object with   *)
(* optional properties (domains, domainMap, a query) is a function whose   *)
(* DOMAIN is the set of properties it has.                                 *)
(***************************************************************************)
EXTENDS Integers, Sequences, FiniteSets, TLC

VARIABLES
    isTrusted,   \* this.isTrusted
    useXhr,      \* constructor argument useXhr
    domains,     \* this.domains: protocol key -> non-empty list of hosts
    domainMap,   \* this.domainMap: host -> host
    validators,  \* this.validators: protocol -> validator built by makeValidator
    pc,          \* "idle" | "sanitized" | "fetching" | "done"
    opt,         \* the request descriptor of the call in progress
    urlParts,    \* what parseUrl returned, as mutated by sanitizeUrl
    result,      \* outcome of the last sanitizeUrl: error, formatted url, external-service trace
    hasCallback, \* whether the loader was given a callback
    xhrCalls,    \* urls handed to datalib.load.xhr for this request
    httpCalls,   \* urls handed to datalib.load.http for this request
    cbCalls,     \* (error, data) pairs delivered to the caller's callback
    thrown,      \* errors rethrown by the loader's default error handler
    logged,      \* number of this.logger calls for this request
    payload,     \* the response handed to dataParser
    hostTests    \* the direct calls of testHost so far, with this.validators around each

vars == <<isTrusted, useXhr, domains, domainMap, validators, pc, opt, urlParts,
          result, hasCallback, xhrCalls, httpCalls, cbCalls, thrown, logged, payload,
          hostTests>>

config == <<isTrusted, useXhr, domains, domainMap>>
loaderVars == <<hasCallback, xhrCalls, httpCalls, cbCalls, thrown, logged, payload>>

-----------------------------------------------------------------------------
(* Bounds of the model *)

\* longest page title (in tokens) of an "open" request
MaxTitleLen == 3
\* longest mapsnapshot style (in tokens)
MaxStyleLen == 2
\* most rows, and most cells per row or headers, of a tabular payload
MaxRows == 2
MaxCols == 2
\* most direct calls of testHost on one wrapper
MaxCalls == 3

-----------------------------------------------------------------------------
(* Strings *)

NoString == << >>
EmptyObject == [x \in {} |-> NoString]

HTTP == <<"http", ":">>
HTTPS == <<"https", ":">>
WIKITITLE == <<"wikititle", ":">>
WIKIAPI == <<"wikiapi", ":">>
WIKIREST == <<"wikirest", ":">>
WIKIRAW == <<"wikiraw", ":">>
TABULAR == <<"tabular", ":">>
TABULARINFO == <<"tabularinfo", ":">>
WIKIFILE == <<"wikifile", ":">>
WIKIRAWUPLOAD == <<"wikirawupload", ":">>
WIKIDATASPARQL == <<"wikidatasparql", ":">>
GEOSHAPE == <<"geoshape", ":">>
GEOLINE == <<"geoline", ":">>
MAPSNAPSHOT == <<"mapsnapshot", ":">>
\* a scheme the code has no case for
FTP == <<"ftp", ":">>

Min(S) == CHOOSE x \in S : \A y \in S : x <= y
Max(S) == CHOOSE x \in S : \A y \in S : x >= y

\* String.prototype.trim
Trim(s) ==
    LET keep == {i \in 1..Len(s) : s[i] # " "}
    IN  IF keep = {} THEN NoString ELSE SubSeq(s, Min(keep), Max(keep))

\* number of characters of a token
CharLen(t) ==
    CASE t = "wiki" -> 4
      [] t = "api" -> 3
      [] t \in {"%20", "%7C", "%2F", "%25"} -> 3
      [] OTHER -> 1

\* s.substring(n): drops the tokens that make up the first n characters
RECURSIVE Substring(_, _)
Substring(s, n) ==
    IF n <= 0 \/ s = NoString THEN s ELSE Substring(Tail(s), n - CharLen(Head(s)))

\* s.replace(a, b) with a string pattern: only the first occurrence is replaced
ReplaceFirst(s, a, b) ==
    LET at == {i \in 1..Len(s) : s[i] = a}
    IN  IF at = {} THEN s ELSE [s EXCEPT ![Min(at)] = b]

\* decodeURIComponent throws URIError on a "%" that starts no valid escape
IsMalformedURI(s) == \E i \in 1..Len(s) : s[i] = "%"

decodeURIComponent(s) ==
    [i \in 1..Len(s) |->
        CASE s[i] = "%20" -> " "
          [] s[i] = "%7C" -> "|"
          [] OTHER -> s[i]]

encodeURIComponent(s) ==
    [i \in 1..Len(s) |->
        CASE s[i] = " " -> "%20"
          [] s[i] = "|" -> "%7C"
          [] s[i] = "/" -> "%2F"
          [] s[i] = "%" -> "%25"
          [] OTHER -> s[i]]

\* IsTitlePath with /^\/.+$/, which lets the pipe through
IsTitlePathAnyChar(s) == Len(s) >= 2 /\ s[1] = "/"

\* /^\/[^|]+$/
IsTitlePath(s) ==
    /\ Len(s) >= 2
    /\ s[1] = "/"
    /\ \A i \in 2..Len(s) : s[i] # "|"

\* /^\/wiki\/.+$/
HasWikiPrefix(s) ==
    /\ Len(s) >= 4
    /\ s[1] = "/" /\ s[2] = "wiki" /\ s[3] = "/"

\* /^\/api\//
HasApiPrefix(s) ==
    /\ Len(s) >= 3
    /\ s[1] = "/" /\ s[2] = "api" /\ s[3] = "/"

removeColon(protocol) ==
    IF Len(protocol) > 0 /\ protocol[Len(protocol)] = ":"
    THEN SubSeq(protocol, 1, Len(protocol) - 1)
    ELSE protocol

\* datalib.extend(a, b): the properties of a, overridden and extended by those of b
objExtender(a, b) == [k \in DOMAIN a \cup DOMAIN b |-> IF k \in DOMAIN b THEN b[k] ELSE a[k]]

-----------------------------------------------------------------------------
(* Hosts and the allowlist *)

WP == <<"wikipedia", "org">>
ENWP == <<"en", "wikipedia", "org">>
MAPS == <<"maps", "wikimedia", "org">>
EVIL == <<"evil", "org">>

\* a lookup that found nothing: undefined (no configured list is empty)
Undefined == << >>

IsSubdomain(host, d) ==
    /\ Len(host) > Len(d)
    /\ SubSeq(host, Len(host) - Len(d) + 1, Len(host)) = d

\* require('domain-validator'): the validator is its two arguments, and
\* .test(host) accepts a listed host and, when allowed, its subdomains
makeValidator(list, allowSubdomains) == [list |-> list, sub |-> allowSubdomains]

ValidatorTest(v, host) ==
    \E i \in 1..Len(v.list) :
        \/ host = v.list[i]
        \/ v.sub /\ IsSubdomain(host, v.list[i])

_getProtocolDomains(protocol) ==
    IF protocol \in DOMAIN domains THEN domains[protocol]
    ELSE IF removeColon(protocol) \in DOMAIN domains THEN domains[removeColon(protocol)]
    ELSE Undefined

\* testHostUncached that caches a validator of no hosts for a disabled protocol
testHostCachesDisabled(vals, protocol, host, list) ==
    [ok |-> list # Undefined
            /\ ValidatorTest(makeValidator(list, protocol = HTTPS \/ protocol = HTTP), host),
     validators |->
         (protocol :> makeValidator(list, protocol = HTTPS \/ protocol = HTTP)) @@ vals]

\* testHost when this.validators has no entry for the protocol: list is what
\* _getProtocolDomains returned
testHostUncached(vals, protocol, host, list) ==
    IF list # Undefined
    THEN [ok |-> ValidatorTest(makeValidator(list, protocol = HTTPS \/ protocol = HTTP), host),
          validators |->
              (protocol :> makeValidator(list, protocol = HTTPS \/ protocol = HTTP)) @@ vals]
    ELSE [ok |-> FALSE, validators |-> vals]

\* testHost: the answer, and this.validators after the call
testHost(vals, protocol, host) ==
    IF protocol \notin DOMAIN vals
    THEN testHostUncached(vals, protocol, host, _getProtocolDomains(protocol))
    ELSE [ok |-> ValidatorTest(vals[protocol], host), validators |-> vals]

\* host = (this.domainMap && this.domainMap[host]) || host
MapHost(host) == IF host \in DOMAIN domainMap THEN domainMap[host] ELSE host

\* sanitizeHost after testHost('https:', host) answered no: http is the answer
\* of testHost('http:', host); found = FALSE stands for the undefined returned
sanitizeHostHttp(host, http) ==
    IF http.ok
    THEN [found |-> TRUE, host |-> host, protocol |-> HTTP, validators |-> http.validators]
    ELSE [found |-> FALSE, host |-> host, protocol |-> NoString, validators |-> http.validators]

\* sanitizeHost of the mapped host: https is the answer of testHost('https:', host)
sanitizeHostHttps(host, https) ==
    IF https.ok
    THEN [found |-> TRUE, host |-> host, protocol |-> HTTPS, validators |-> https.validators]
    ELSE sanitizeHostHttp(host, testHost(https.validators, HTTP, host))

sanitizeHostMapped(vals, host) == sanitizeHostHttps(host, testHost(vals, HTTPS, host))

\* sanitizeHost: the host and protocol found, and this.validators after the call
sanitizeHost(vals, host) == sanitizeHostMapped(vals, MapHost(host))

-----------------------------------------------------------------------------
(* Errors: the message of the Error thrown, without the url some messages end with *)

NoError == << >>
TypeError == <<"TypeError">>
URIError == <<"URIError">>
ErrNotWhitelisted == <<"URL hostname is not whitelisted: ">>
ErrWikiPrefix == <<"wikititle: http(s) links must begin with /wiki/ prefix">>
ErrOpenQuery == <<"wikititle: query parameters are not allowed">>
ErrOpenTitle == <<"wikititle: invalid title">>
ErrOpenProtocol == <<"\"open()\" action only allows links with wikititle protocol, e.g. wikititle:///My_page">>
ErrUntrusted == <<"HTTP and HTTPS protocols are not supported for untrusted graphs.">>
ErrRestPrefix == <<"wikirest: protocol must begin with the /api/ prefix">>
ErrRawTitle == <<"wikiraw: invalid title">>
ErrTabularTitle(protocol) == protocol \o <<": invalid title">>
ErrSparqlQuery == <<"wikidatasparql: missing query parameter in: ">>
ErrGeoParams(graphProtocol) == graphProtocol \o <<" missing ids or query parameter in: ">>
ErrUnknownProtocol == <<"Unknown protocol ">>
ErrDisabled(protocol) == protocol \o <<": protocol is disabled: ">>
ErrHostNotAllowed(protocol) ==
    protocol \o <<": URL must either be relative (">> \o protocol \o
    <<"///...), or use one of the allowed hosts: ">>
ErrNotSet(name) == <<"mapsnapshot: parameter ", name, " is not set">>
ErrNotNumber(name) == <<"mapsnapshot: parameter ", name, " is not a number">>
ErrNotValid(name) == <<"mapsnapshot: parameter ", name, " is not valid">>
ErrStyle == <<"mapsnapshot: if style is given, it must be letters/numbers/dash/underscores only">>

-----------------------------------------------------------------------------
(* validate(obj, name, min, max, isFloat) of the mapsnapshot parameters *)

Digits == {"0", "1", "2", "3", "4", "5", "6", "7", "8", "9"}

DigitValue(c) ==
    CASE c = "0" -> 0 [] c = "1" -> 1 [] c = "2" -> 2 [] c = "3" -> 3 [] c = "4" -> 4
      [] c = "5" -> 5 [] c = "6" -> 6 [] c = "7" -> 7 [] c = "8" -> 8 [] c = "9" -> 9

RECURSIVE DigitsValue(_)
DigitsValue(s) ==
    IF s = NoString THEN 0
    ELSE 10 * DigitsValue(SubSeq(s, 1, Len(s) - 1)) + DigitValue(s[Len(s)])

RECURSIVE Pow10(_)
Pow10(n) == IF n = 0 THEN 1 ELSE 10 * Pow10(n - 1)

Unsigned(s) == IF s # NoString /\ Head(s) = "-" THEN Tail(s) ELSE s

\* /^-?[0-9]+$/
IsIntSyntax(s) ==
    /\ Unsigned(s) # NoString
    /\ \A i \in 1..Len(Unsigned(s)) : Unsigned(s)[i] \in Digits

\* /^-?[0-9]+\.?[0-9]*$/
IsFloatSyntax(s) ==
    LET u == Unsigned(s)
        dots == {i \in 1..Len(u) : u[i] = "."}
    IN  /\ u # NoString
        /\ u[1] \in Digits
        /\ Cardinality(dots) <= 1
        /\ \A i \in 1..Len(u) : u[i] \in Digits \cup {"."}

\* parseInt / parseFloat of a string of that syntax, as the fraction num / den
NumberOf(s) ==
    LET u == Unsigned(s)
        digits == SelectSeq(u, LAMBDA c : c # ".")
        dots == {i \in 1..Len(u) : u[i] = "."}
        decimals == IF dots = {} THEN 0 ELSE Len(u) - Min(dots)
        sign == IF Head(s) = "-" THEN -1 ELSE 1
    IN  [num |-> sign * DigitsValue(digits), den |-> Pow10(decimals)]

\* validate with the bounds themselves out of range: value <= min || value >= max
validateExclusive(obj, name, min, max, isFloat) ==
    IF name \notin DOMAIN obj THEN ErrNotSet(name)
    ELSE IF ~(IF isFloat THEN IsFloatSyntax(obj[name]) ELSE IsIntSyntax(obj[name]))
    THEN ErrNotNumber(name)
    ELSE IF NumberOf(obj[name]).num <= min * NumberOf(obj[name]).den
            \/ NumberOf(obj[name]).num >= max * NumberOf(obj[name]).den
    THEN ErrNotValid(name)
    ELSE NoError

\* the message validate throws, NoError when it returns
validate(obj, name, min, max, isFloat) ==
    IF name \notin DOMAIN obj THEN ErrNotSet(name)
    ELSE IF ~(IF isFloat THEN IsFloatSyntax(obj[name]) ELSE IsIntSyntax(obj[name]))
    THEN ErrNotNumber(name)
    ELSE LET value == NumberOf(obj[name])
         IN  IF value.num < min * value.den \/ value.num > max * value.den
             THEN ErrNotValid(name)
             ELSE NoError

\* /^[-_0-9a-z]$/
LowerCase ==
    {"a", "b", "c", "d", "e", "f", "g", "h", "i", "j", "k", "l", "m",
     "n", "o", "p", "q", "r", "s", "t", "u", "v", "w", "x", "y", "z"}

StyleChars == {"-", "_"} \cup Digits \cup LowerCase

IsStyleSyntax(s) == Len(s) = 1 /\ s[1] \in StyleChars

-----------------------------------------------------------------------------
(* sanitizeUrl *)

\* what one call of sanitizeUrl leaves behind: the error thrown (NoError when it
\* returned), urlParts and opt as mutated so far, this.validators, and the trace
\* of its call of _validateExternalService
Outcome(error, parts, o, vals, ext) ==
    [error |-> error, urlParts |-> parts, opt |-> o, validators |-> vals, ext |-> ext]

NoExt == [called |-> FALSE, key |-> NoString, relative |-> FALSE, error |-> NoError]

\* how _validateExternalService ends: the error thrown (NoError when it returned),
\* urlParts and this.validators after it
ExtEnd(error, parts, vals, protocol) ==
    [error |-> error, urlParts |-> parts, validators |-> vals,
     ext |-> [called |-> TRUE, key |-> protocol, relative |-> parts.isRelativeHost,
              error |-> error]]

\* if (!this.testHost(protocol, urlParts.host)) throw: allowed is testHost's answer
ExtTested(parts, protocol, allowed) ==
    IF ~allowed.ok
    THEN ExtEnd(ErrHostNotAllowed(protocol), parts, allowed.validators, protocol)
    ELSE ExtEnd(NoError, parts, allowed.validators, protocol)

\* the urlParts.isRelativeHost branch: first is this.sanitizeHost(domains[0]), and
\* first.protocol reads a property of undefined when the host was not found
ExtRelative(parts, protocol, list, first) ==
    IF ~first.found
    THEN ExtEnd(TypeError, [parts EXCEPT !.host = list[1]], first.validators, protocol)
    ELSE ExtTested([parts EXCEPT !.host = list[1], !.protocol = first.protocol], protocol,
                   testHost(first.validators, protocol, list[1]))

\* _validateExternalService once protocol and its domains are known
ExtResolved(parts, sanitizedHost, vals, protocol, list) ==
    IF list = Undefined
    THEN ExtEnd(ErrDisabled(protocol), parts, vals, protocol)
    ELSE IF parts.isRelativeHost
    THEN ExtRelative(parts, protocol, list, sanitizeHost(vals, list[1]))
    ELSE ExtTested([parts EXCEPT !.protocol = sanitizedHost.protocol], protocol,
                   testHost(vals, protocol, parts.host))

ExtKeyed(parts, sanitizedHost, vals, protocol) ==
    ExtResolved(parts, sanitizedHost, vals, protocol, _getProtocolDomains(protocol))

_validateExternalService(parts, sanitizedHost, vals, protocolOverride) ==
    ExtKeyed(parts, sanitizedHost, vals,
             IF protocolOverride # NoString THEN protocolOverride ELSE parts.protocol)

Truthy(obj, name) == name \in DOMAIN obj /\ obj[name] # NoString

WikiPath == <<"/", "wiki", "/">>
ApiPhpPath == <<"/", "w", "/", "api.php">>
SparqlPath == <<"/", "bigdata", "/", "namespace", "/", "wdq", "/", "sparql">>
RedirectPath == <<"/", "wiki", "/", "Special:Redirect", "/", "file">>
ApiQuery ==
    ("format" :> <<"json">>) @@ ("formatversion" :> <<"2">>)

\* case 'wikititle:' of the open action, which case 'http:' / 'https:' falls into
OpenTitle(parts, sanitizedHost, o, vals, decodedPathname) ==
    IF DOMAIN parts.query # {}
    THEN Outcome(ErrOpenQuery, parts, o, vals, NoExt)
    ELSE IF ~IsTitlePath(decodedPathname)
    THEN Outcome(ErrOpenTitle, parts, o, vals, NoExt)
    ELSE Outcome(NoError,
                 [parts EXCEPT
                    !.pathname = WikiPath \o encodeURIComponent(
                                     ReplaceFirst(Substring(decodedPathname, 1), " ", "_")),
                    !.protocol = sanitizedHost.protocol],
                 o, vals, NoExt)

\* case 'http:' / 'https:' of the open action
OpenHttp(parts, sanitizedHost, o, vals, isRelativeProtocol, decodedPathname) ==
    IF ~isRelativeProtocol /\ ~HasWikiPrefix(decodedPathname)
    THEN Outcome(ErrWikiPrefix, parts, o, vals, NoExt)
    ELSE OpenTitle(parts, sanitizedHost, [o EXCEPT !.graphProtocol = <<"wikititle">>], vals,
                   IF ~isRelativeProtocol THEN Substring(decodedPathname, 5)
                   ELSE decodedPathname)

\* switch (urlParts.protocol) of the open action
OpenSwitch(parts, sanitizedHost, o, vals, isRelativeProtocol, decodedPathname) ==
    CASE parts.protocol \in {HTTP, HTTPS} ->
            OpenHttp(parts, sanitizedHost, o, vals, isRelativeProtocol, decodedPathname)
      [] parts.protocol = WIKITITLE ->
            OpenTitle(parts, sanitizedHost, o, vals, decodedPathname)
      [] OTHER -> Outcome(ErrOpenProtocol, parts, o, vals, NoExt)

\* the branch for opt.type === 'open'
OpenAction(parts, sanitizedHost, o, vals, isRelativeProtocol) ==
    IF IsMalformedURI(parts.pathname)
    THEN Outcome(URIError, parts, o, vals, NoExt)
    ELSE OpenSwitch(parts, sanitizedHost, o, vals, isRelativeProtocol,
                    Trim(decodeURIComponent(parts.pathname)))

\* a case whose _validateExternalService threw
ExtThrew(o, ext) == Outcome(ext.error, ext.urlParts, o, ext.validators, ext.ext)

\* the first message among those the validate calls threw
FirstError(errors) ==
    IF \A i \in 1..Len(errors) : errors[i] = NoError
    THEN NoError
    ELSE errors[Min({i \in 1..Len(errors) : errors[i] # NoError})]

\* case 'mapsnapshot:' after the validate calls
MapSnapshotStyle(o, ext, query, error) ==
    IF error # NoError
    THEN Outcome(error, ext.urlParts, o, ext.validators, ext.ext)
    ELSE IF Truthy(query, "style") /\ ~IsStyleSyntax(query["style"])
    THEN Outcome(ErrStyle, ext.urlParts, o, ext.validators, ext.ext)
    ELSE Outcome(NoError,
                 [ext.urlParts EXCEPT
                    !.pathname = <<"/", "img", "/">>
                                 \o (IF Truthy(query, "style") THEN query["style"]
                                     ELSE <<"osm-intl">>)
                                 \o <<",">> \o query["zoom"] \o <<",">> \o query["lat"]
                                 \o <<",">> \o query["lon"] \o <<",">> \o query["width"]
                                 \o <<"x">> \o query["height"] \o <<"@2x.png">>,
                    !.query = EmptyObject],
                 o, ext.validators, ext.ext)

\* case 'mapsnapshot:': ext is how _validateExternalService(.., 'geoshape:') ended
MapSnapshot(o, ext) ==
    IF ext.error # NoError
    THEN ExtThrew(o, ext)
    ELSE MapSnapshotStyle(o, ext, ext.urlParts.query,
             FirstError(<< validate(ext.urlParts.query, "width", 1, 4096, FALSE),
                           validate(ext.urlParts.query, "height", 1, 4096, FALSE),
                           validate(ext.urlParts.query, "zoom", 0, 22, FALSE),
                           validate(ext.urlParts.query, "lat", -90, 90, TRUE),
                           validate(ext.urlParts.query, "lon", -180, 180, TRUE) >>))

\* HttpFetch without the isTrusted check
HttpFetchUnchecked(parts, o, vals) == Outcome(NoError, parts, o, vals, NoExt)

\* case 'http:' / case 'https:' of a normal fetch
HttpFetch(parts, o, vals) ==
    IF ~isTrusted
    THEN Outcome(ErrUntrusted, parts, o, vals, NoExt)
    ELSE Outcome(NoError, parts, o, vals, NoExt)

\* case 'wikiapi:'
WikiApi(parts, sanitizedHost, o, vals) ==
    Outcome(NoError,
            [parts EXCEPT !.query = objExtender(parts.query, ApiQuery),
                          !.pathname = ApiPhpPath,
                          !.protocol = sanitizedHost.protocol],
            [o EXCEPT !.addCorsOrigin = TRUE], vals, NoExt)

\* case 'wikirest:'
WikiRest(parts, sanitizedHost, o, vals) ==
    IF ~HasApiPrefix(parts.pathname)
    THEN Outcome(ErrRestPrefix, parts, o, vals, NoExt)
    ELSE Outcome(NoError, [parts EXCEPT !.protocol = sanitizedHost.protocol], o, vals, NoExt)

\* case 'wikiraw:'
WikiRaw(parts, sanitizedHost, o, vals) ==
    IF IsMalformedURI(parts.pathname)
    THEN Outcome(URIError, parts, o, vals, NoExt)
    ELSE IF ~IsTitlePath(decodeURIComponent(parts.pathname))
    THEN Outcome(ErrRawTitle, parts, o, vals, NoExt)
    ELSE Outcome(NoError,
                 [parts EXCEPT
                    !.query = ApiQuery @@ ("action" :> <<"query">>)
                              @@ ("prop" :> <<"revisions">>) @@ ("rvprop" :> <<"content">>)
                              @@ ("titles" :> Substring(decodeURIComponent(parts.pathname), 1)),
                    !.pathname = ApiPhpPath,
                    !.protocol = sanitizedHost.protocol],
                 [o EXCEPT !.addCorsOrigin = TRUE], vals, NoExt)

\* case 'tabular:' / 'tabularinfo:'
Tabular(parts, sanitizedHost, o, vals) ==
    IF IsMalformedURI(parts.pathname)
    THEN Outcome(URIError, parts, o, vals, NoExt)
    ELSE IF ~IsTitlePath(decodeURIComponent(parts.pathname))
    THEN Outcome(ErrTabularTitle(parts.protocol), parts, o, vals, NoExt)
    ELSE ExtThrew([o EXCEPT !.addCorsOrigin = TRUE],
                  _validateExternalService(
                      [parts EXCEPT
                         !.query = ApiQuery @@ ("action" :> <<"jsondata">>)
                                   @@ ("title" :> Substring(decodeURIComponent(parts.pathname), 1)),
                         !.pathname = ApiPhpPath],
                      sanitizedHost, vals, TABULAR))

\* case 'wikifile:'
WikiFile(parts, sanitizedHost, o, vals) ==
    Outcome(NoError,
            [parts EXCEPT !.pathname = RedirectPath \o parts.pathname,
                          !.protocol = sanitizedHost.protocol],
            o, vals, NoExt)

\* case 'wikirawupload:': ext is how _validateExternalService ended
WikiRawUpload(o, ext) ==
    IF ext.error # NoError
    THEN ExtThrew(o, ext)
    ELSE Outcome(NoError, [ext.urlParts EXCEPT !.query = EmptyObject], o, ext.validators,
                 ext.ext)

\* case 'wikidatasparql:'
WikidataSparql(o, ext) ==
    IF ext.error # NoError
    THEN ExtThrew(o, ext)
    ELSE IF ~Truthy(ext.urlParts.query, "query")
    THEN Outcome(ErrSparqlQuery, ext.urlParts, o, ext.validators, ext.ext)
    ELSE Outcome(NoError,
                 [ext.urlParts EXCEPT !.query = ("query" :> ext.urlParts.query["query"]),
                                      !.pathname = SparqlPath],
                 [o EXCEPT !.headers =
                    objExtender(o.headers, ("Accept" :> <<"application/sparql-results+json">>))],
                 ext.validators, ext.ext)

\* case 'geoshape:' / 'geoline:'
GeoShape(o, ext) ==
    IF ext.error # NoError
    THEN ExtThrew(o, ext)
    ELSE IF ~Truthy(ext.urlParts.query, "ids") /\ ~Truthy(ext.urlParts.query, "query")
    THEN Outcome(ErrGeoParams(o.graphProtocol), ext.urlParts, o, ext.validators, ext.ext)
    ELSE Outcome(NoError,
                 [ext.urlParts EXCEPT !.pathname = <<"/">> \o removeColon(o.graphProtocol)],
                 o, ext.validators, ext.ext)

\* the branch for the other values of opt.type: switch (urlParts.protocol)
NormalFetch(parts, sanitizedHost, o, vals) ==
    CASE parts.protocol \in {HTTP, HTTPS} -> HttpFetch(parts, o, vals)
      [] parts.protocol = WIKIAPI -> WikiApi(parts, sanitizedHost, o, vals)
      [] parts.protocol = WIKIREST -> WikiRest(parts, sanitizedHost, o, vals)
      [] parts.protocol = WIKIRAW -> WikiRaw(parts, sanitizedHost, o, vals)
      [] parts.protocol \in {TABULAR, TABULARINFO} -> Tabular(parts, sanitizedHost, o, vals)
      [] parts.protocol = WIKIFILE -> WikiFile(parts, sanitizedHost, o, vals)
      [] parts.protocol = WIKIRAWUPLOAD ->
            WikiRawUpload(o, _validateExternalService(parts, sanitizedHost, vals, NoString))
      [] parts.protocol = WIKIDATASPARQL ->
            WikidataSparql(o, _validateExternalService(parts, sanitizedHost, vals, NoString))
      [] parts.protocol \in {GEOSHAPE, GEOLINE} ->
            GeoShape(o, _validateExternalService(parts, sanitizedHost, vals, GEOSHAPE))
      [] parts.protocol = MAPSNAPSHOT ->
            MapSnapshot(o, _validateExternalService(parts, sanitizedHost, vals, GEOSHAPE))
      [] OTHER -> Outcome(ErrUnknownProtocol, parts, o, vals, NoExt)

\* opt.url.replace(/^([a-z]+:)https?:\/\//, '$1//'): the url is its scheme, the
\* http(s): wrongly following a scheme (inner), and the rest from "//" on
RepairUrl(url) ==
    IF url.scheme # NoString /\ url.inner \in {HTTP, HTTPS}
    THEN [url EXCEPT !.inner = NoString]
    ELSE url

\* /^\/\//.test(opt.url)
StartsWithSlashes(url) == url.scheme = NoString /\ url.inner = NoString

\* the url parser passed to the constructor: the parts the request carries
parseUrl(o) == o.parsed

\* the url formatter passed to the constructor
formatUrl(parts, o) == <<parts.protocol, <<"//">>, parts.host, parts.pathname, parts.query>>

\* sanitizeUrl from "Save original protocol" on: parts has the sanitized host and
\* a protocol
SanitizeBranch(parts, sanitizedHost, o, isRelativeProtocol) ==
    IF o.type = "open"
    THEN OpenAction(parts, sanitizedHost, [o EXCEPT !.graphProtocol = parts.protocol],
                    sanitizedHost.validators, isRelativeProtocol)
    ELSE NormalFetch(parts, sanitizedHost, [o EXCEPT !.graphProtocol = parts.protocol],
                     sanitizedHost.validators)

\* sanitizeUrl once the url is parsed and the host looked up
SanitizeParsed(parts, sanitizedHost, o) ==
    IF ~sanitizedHost.found
    THEN Outcome(ErrNotWhitelisted, parts, o, sanitizedHost.validators, NoExt)
    ELSE SanitizeBranch([parts EXCEPT
                            !.host = sanitizedHost.host,
                            !.protocol = IF parts.protocol = NoString
                                         THEN sanitizedHost.protocol ELSE parts.protocol],
                        sanitizedHost, o,
                        StartsWithSlashes(o.url) \/ parts.protocol = NoString)

SanitizeRepaired(o, vals) ==
    SanitizeParsed(parseUrl(o), sanitizeHost(vals, parseUrl(o).host), o)

sanitizeUrl(o, vals) == SanitizeRepaired([o EXCEPT !.url = RepairUrl(o.url)], vals)

-----------------------------------------------------------------------------
(* dataParser *)

ErrTransport == <<"transport failed">>
SyntaxError == <<"SyntaxError">>
ErrApi == <<"API error: ">>
ErrContent == <<"Page content not available ">>
ErrTabular == <<"page is not a valid tabular data">>
ErrSparql == <<"SPARQL query result does not have \"results.bindings\"">>

\* the undefined passed to the callback with an error
UndefinedData == [kind |-> "undefined", val |-> << >>]

\* v[i] of a row
Cell(v, i) == IF i \in 1..Len(v) THEN v[i] ELSE "undefined"

\* the object the forEach callback builds from row v: row[headers[i]] = v[i], a
\* later header overwriting an equal earlier one
RowRecord(headers, v) ==
    [h \in {headers[i] : i \in 1..Len(headers)} |->
        Cell(v, Max({i \in 1..Len(headers) : headers[i] = h}))]

\* data.headers.length: undefined for a number, a TypeError for a missing headers
HeaderNames(headers) == IF headers.kind = "number" THEN << >> ELSE headers.val

\* parseMWApiResponse: the error thrown and the number of logger calls
parseMWApiResponse(data) ==
    CASE data.json = "invalid" -> [error |-> SyntaxError, logged |-> 0]
      [] data.json = "null" -> [error |-> TypeError, logged |-> 0]
      [] data.error -> [error |-> ErrApi, logged |-> 0]
      [] OTHER -> [error |-> NoError, logged |-> IF data.warnings THEN 1 ELSE 0]

Parsed(error, kind, val, logs) ==
    [error |-> error, data |-> [kind |-> kind, val |-> val], logged |-> logs]

Threw(error, logs) == Parsed(error, "unassigned", << >>, logs)

\* case 'wikiraw:' after parseMWApiResponse
ParseWikiRaw(data, api) ==
    IF api.error # NoError THEN Threw(api.error, api.logged)
    ELSE IF ~data.content THEN Threw(ErrContent, api.logged)
    ELSE Parsed(NoError, "content", << >>, api.logged)

\* case 'tabular:' after parseMWApiResponse
ParseTabular(data, api) ==
    IF api.error # NoError THEN Threw(api.error, api.logged)
    ELSE IF data.rows.kind # "array" THEN Threw(ErrTabular, api.logged)
    ELSE IF data.rows.val # << >> /\ data.headers.kind = "missing"
    THEN Threw(TypeError, api.logged)
    ELSE Parsed(NoError, "records",
                [r \in 1..Len(data.rows.val) |->
                    RowRecord(HeaderNames(data.headers), data.rows.val[r])],
                api.logged)

\* case 'tabularinfo:' after parseMWApiResponse
ParseTabularInfo(data, api) ==
    IF api.error # NoError THEN Threw(api.error, api.logged)
    ELSE IF data.headers.kind = "missing" THEN Threw(TypeError, api.logged)
    ELSE IF HeaderNames(data.headers) # << >> /\ ~data.columns
    THEN Threw(TypeError, api.logged)
    ELSE Parsed(NoError, "info",
                [count |-> IF data.rows.kind = "array" THEN Len(data.rows.val) ELSE 0,
                 headers |-> HeaderNames(data.headers)],
                api.logged)

\* case 'wikidatasparql:'
ParseSparql(data) ==
    CASE data.json = "invalid" -> Threw(SyntaxError, 0)
      [] data.json = "null" -> Threw(TypeError, 0)
      [] data.bindings # "array" -> Threw(ErrSparql, 0)
      [] OTHER -> Parsed(NoError, "bindings", << >>, 0)

\* case 'wikiapi:'
ParseWikiApi(data, api) ==
    IF api.error # NoError THEN Threw(api.error, api.logged)
    ELSE Parsed(NoError, "json", data, api.logged)

\* parseDataOrThrow: the error thrown, the data returned, the logger calls
parseDataOrThrow(data, o) ==
    CASE o.graphProtocol = WIKIAPI -> ParseWikiApi(data, parseMWApiResponse(data))
      [] o.graphProtocol = WIKIRAW -> ParseWikiRaw(data, parseMWApiResponse(data))
      [] o.graphProtocol = TABULAR -> ParseTabular(data, parseMWApiResponse(data))
      [] o.graphProtocol = TABULARINFO -> ParseTabularInfo(data, parseMWApiResponse(data))
      [] o.graphProtocol = WIKIDATASPARQL -> ParseSparql(data)
      [] OTHER -> Parsed(NoError, "raw", data, 0)

\* DataParsed without "if (error) data = undefined": the undecoded data goes out
DataParsedKeepsData(data, parsed) ==
    [error |-> parsed.error,
     data |-> IF parsed.error # NoError THEN [kind |-> "raw", val |-> data] ELSE parsed.data,
     logged |-> parsed.logged]

\* dataParser after the try: what it passes to the callback
DataParsed(data, parsed) ==
    [error |-> parsed.error,
     data |-> IF parsed.error # NoError THEN UndefinedData ELSE parsed.data,
     logged |-> parsed.logged]

\* dataParser: the arguments of its one callback call, and the logger calls
dataParser(error, data, o) ==
    IF error = NoError
    THEN DataParsed(data, parseDataOrThrow(data, o))
    ELSE [error |-> error, data |-> UndefinedData, logged |-> 0]

-----------------------------------------------------------------------------
(* The state machine *)

NoOpt ==
    [url |-> [scheme |-> NoString, inner |-> NoString], type |-> "none",
     parsed |-> [protocol |-> NoString, host |-> NoString, pathname |-> NoString,
                 query |-> EmptyObject, isRelativeHost |-> FALSE],
     graphProtocol |-> NoString, addCorsOrigin |-> FALSE, headers |-> EmptyObject]

NoResult == [error |-> NoError, url |-> NoString, ext |-> NoExt]

\* a request as the caller builds it: opt, with what the parser will make of opt.url
Request(url, type, protocol, host, isRelativeHost, pathname, query) ==
    [NoOpt EXCEPT !.url = url, !.type = type,
                  !.parsed = [protocol |-> protocol, host |-> host, pathname |-> pathname,
                              query |-> query, isRelativeHost |-> isRelativeHost]]

Idle ==
    /\ pc = "idle"
    /\ opt = NoOpt
    /\ urlParts = NoOpt.parsed
    /\ result = NoResult
    /\ hasCallback = FALSE
    /\ xhrCalls = << >>
    /\ httpCalls = << >>
    /\ cbCalls = << >>
    /\ thrown = << >>
    /\ logged = 0
    /\ payload = << >>
    /\ hostTests = << >>

\* what sanitizeUrl returned or threw, as the caller sees it
ResultOf(out) ==
    [error |-> out.error,
     url |-> IF out.error = NoError THEN formatUrl(out.urlParts, out.opt) ELSE NoString,
     ext |-> out.ext]

\* the state a call of sanitizeUrl that ended as out leaves
Sanitized(out) ==
    /\ opt' = out.opt
    /\ urlParts' = out.urlParts
    /\ validators' = out.validators
    /\ result' = ResultOf(out)

\* a direct call of datalib.load.sanitizeUrl(o)
Sanitize(o) ==
    /\ Sanitized(sanitizeUrl(o, validators))
    /\ pc' = "sanitized"
    /\ UNCHANGED <<config, loaderVars, hostTests>>

\* loader without the return after error(err): the transport is called all the same
loaderFallsThrough(out, cb) ==
    IF out.error # NoError /\ ~cb
    THEN [cbCalls |-> << >>, thrown |-> << out.error >>,
          xhrCalls |-> << >>, httpCalls |-> << >>, pc |-> "done"]
    ELSE [cbCalls |-> IF out.error # NoError
                      THEN << [error |-> out.error, data |-> UndefinedData] >> ELSE << >>,
          thrown |-> << >>,
          xhrCalls |-> IF useXhr THEN << ResultOf(out).url >> ELSE << >>,
          httpCalls |-> IF useXhr THEN << >> ELSE << ResultOf(out).url >>,
          pc |-> "fetching"]

\* datalib.load.loader up to its return: out is how sanitizeUrl ended, cb whether
\* a callback was given.  error(err) calls the callback or throws err; the
\* transport picked by useXhr gets the url
loader(out, cb) ==
    IF out.error # NoError
    THEN [cbCalls |-> IF cb THEN << [error |-> out.error, data |-> UndefinedData] >>
                      ELSE << >>,
          thrown |-> IF cb THEN << >> ELSE << out.error >>,
          xhrCalls |-> << >>, httpCalls |-> << >>, pc |-> "done"]
    ELSE [cbCalls |-> << >>, thrown |-> << >>,
          xhrCalls |-> IF useXhr THEN << formatUrl(out.urlParts, out.opt) >> ELSE << >>,
          httpCalls |-> IF useXhr THEN << >> ELSE << formatUrl(out.urlParts, out.opt) >>,
          pc |-> "fetching"]

Loaded(calls) ==
    /\ cbCalls' = calls.cbCalls
    /\ thrown' = calls.thrown
    /\ xhrCalls' = calls.xhrCalls
    /\ httpCalls' = calls.httpCalls
    /\ pc' = calls.pc

LoadEnds(out, cb) ==
    /\ Sanitized(out)
    /\ Loaded(loader(out, cb))
    /\ hasCallback' = cb
    /\ UNCHANGED <<config, logged, payload, hostTests>>

\* datalib.load.loader(o, callback)
Load(o, cb) == LoadEnds(sanitizeUrl(o, validators), cb)

\* dataParser's callback(error, data): a TypeError when the loader was given none
Delivered(parsed, cb) ==
    /\ cbCalls' = IF cb THEN Append(cbCalls, [error |-> parsed.error, data |-> parsed.data])
                  ELSE cbCalls
    /\ thrown' = IF cb THEN thrown ELSE Append(thrown, TypeError)
    /\ logged' = parsed.logged

\* the transport calls back with (error, data): cb runs dataParser
Reply(error, data) ==
    /\ Delivered(dataParser(error, data, opt), hasCallback)
    /\ payload' = data
    /\ pc' = "done"
    /\ UNCHANGED <<config, validators, opt, urlParts, result, hasCallback, xhrCalls, httpCalls,
                   hostTests>>

\* a direct call of dataParser(error, data, o, callback)
Parse(error, data, o) ==
    /\ Delivered(dataParser(error, data, o), TRUE)
    /\ payload' = data
    /\ opt' = o
    /\ hasCallback' = TRUE
    /\ pc' = "done"
    /\ UNCHANGED <<config, validators, urlParts, result, xhrCalls, httpCalls, hostTests>>

\* a direct call of testHost(protocol, host) that ended as tested: its arguments
\* and answer, with this.validators before and after, join the history
HostTested(protocol, host, tested) ==
    /\ validators' = tested.validators
    /\ hostTests' = Append(hostTests,
                           [protocol |-> protocol, host |-> host, ok |-> tested.ok,
                            before |-> validators, after |-> tested.validators])
    /\ UNCHANGED <<config, pc, opt, urlParts, result, loaderVars>>

TestHostCall(protocol, host) == HostTested(protocol, host, testHost(validators, protocol, host))

\* the request is over and its descriptor dropped; this.validators stays
Discard ==
    /\ pc \in {"sanitized", "done"}
    /\ pc' = "idle"
    /\ opt' = NoOpt
    /\ urlParts' = NoOpt.parsed
    /\ result' = NoResult
    /\ hasCallback' = FALSE
    /\ xhrCalls' = << >>
    /\ httpCalls' = << >>
    /\ cbCalls' = << >>
    /\ thrown' = << >>
    /\ logged' = 0
    /\ payload' = << >>
    /\ UNCHANGED <<config, validators, hostTests>>

-----------------------------------------------------------------------------
(* Spec: every scheme and action kind under every configuration *)

Services(keys, list) == [k \in keys |-> list]

ColonKeys == {TABULAR, GEOSHAPE, WIKIRAWUPLOAD, WIKIDATASPARQL}
BareKeys == {removeColon(k) : k \in ColonKeys}

\* the lists configured for https:, for http: and for the external services
HttpsLists == {Undefined, <<WP>>, <<WP, MAPS>>}
HttpLists == {Undefined, <<MAPS>>}
ServiceConfigs ==
    {EmptyObject, Services(ColonKeys, <<MAPS>>), Services(BareKeys, <<ENWP, MAPS>>),
     (GEOSHAPE :> <<MAPS>>) @@ (<<"tabular">> :> <<ENWP>>)}
DomainMaps == {EmptyObject, (MAPS :> ENWP), (EVIL :> ENWP)}

Domains(https, http, services) ==
    (IF https = Undefined THEN EmptyObject ELSE (HTTPS :> https))
    @@ (IF http = Undefined THEN EmptyObject ELSE (<<"http">> :> http))
    @@ services

AllSchemes ==
    {HTTP, HTTPS, WIKITITLE, WIKIAPI, WIKIREST, WIKIRAW, TABULAR, TABULARINFO, WIKIFILE,
     WIKIRAWUPLOAD, WIKIDATASPARQL, GEOSHAPE, GEOLINE, MAPSNAPSHOT, FTP}

\* the forms of opt.url, each with the protocol the parser reads from it: a
\* relative url gets none (node.js) or the page's (browser)
UrlForms ==
    {<<[scheme |-> s, inner |-> NoString], s>> : s \in AllSchemes}
    \cup {<<[scheme |-> s, inner |-> i], s>> : s \in {WIKIRAW, GEOSHAPE}, i \in {HTTP, HTTPS}}
    \cup {<<[scheme |-> NoString, inner |-> NoString], p>> : p \in {NoString, HTTPS}}

Hosts == {ENWP, MAPS, EVIL}
Paths == {<<"/", "a">>, <<"/", "api", "/", "a">>, <<"/", "|">>}
SnapshotQuery ==
    ("width" :> <<"1">>) @@ ("height" :> <<"1">>) @@ ("zoom" :> <<"0">>)
    @@ ("lat" :> <<"0">>) @@ ("lon" :> <<"0">>)
Queries == {EmptyObject, ("ids" :> <<"Q1">>), ("query" :> <<"q">>), SnapshotQuery}

Requests ==
    {Request(u[1], type, u[2], host, rel, path, query) :
        u \in UrlForms, type \in {"open", "fetch"}, host \in Hosts, rel \in BOOLEAN,
        path \in Paths, query \in Queries}

Init ==
    /\ isTrusted \in BOOLEAN
    /\ useXhr = TRUE
    /\ \E https \in HttpsLists, http \in HttpLists, services \in ServiceConfigs :
          domains = Domains(https, http, services)
    /\ domainMap \in DomainMaps
    /\ validators = EmptyObject
    /\ Idle

SanitizeUrl == pc = "idle" /\ \E o \in Requests : Sanitize(o)

\* one request per wrapper: what a request leaves in this.validators is the
\* subject of the specifications with Discard
Next == SanitizeUrl

Spec == Init /\ [][Next]_vars

\* a host that a configured https: or http: entry equals or is a parent domain of
Listed(host) ==
    \E key \in {HTTPS, HTTP} :
        \E i \in 1..Len(_getProtocolDomains(key)) :
            \/ host = _getProtocolDomains(key)[i]
            \/ IsSubdomain(host, _getProtocolDomains(key)[i])

\* a host that is literally an entry of the list
InList(host, list) == \E i \in 1..Len(list) : host = list[i]

\* the schemes a normal fetch has a case for, http: and https: aside
CustomSchemes ==
    {WIKIAPI, WIKIREST, WIKIRAW, TABULAR, TABULARINFO, WIKIFILE, WIKIRAWUPLOAD,
     WIKIDATASPARQL, GEOSHAPE, GEOLINE, MAPSNAPSHOT}

\* C1: for an untrusted caller, whenever sanitizeUrl returns without throwing, the
\* host left in urlParts.host is allowed by testHost for the protocol left in
\* urlParts.protocol, which is https: or http:
C1_HostAllowedForProtocol ==
    (pc = "sanitized" /\ ~isTrusted /\ result.error = NoError) =>
        /\ urlParts.protocol \in {HTTPS, HTTP}
        /\ testHost(validators, urlParts.protocol, urlParts.host).ok

UntrustedHttpFetch ==
    /\ pc = "sanitized"
    /\ opt.type = "fetch"
    /\ opt.parsed.protocol \in {HTTP, HTTPS}
    /\ ~isTrusted

\* C3 as claimed: a normal fetch of an untrusted caller whose declared scheme is
\* http: or https: fails with the untrusted-protocol error, whatever the host
C3_AlwaysUntrustedError == UntrustedHttpFetch => result.error = ErrUntrusted

\* C3 as amended: such a fetch always fails, with the untrusted-protocol error
\* when the renamed host is allowlisted for https: or http: and with the
\* not-whitelisted error otherwise; so every normal fetch an untrusted caller gets
\* through has a custom scheme as its declared scheme
C3_UntrustedHttpFails ==
    /\ UntrustedHttpFetch =>
           result.error = IF Listed(MapHost(opt.parsed.host))
                          THEN ErrUntrusted ELSE ErrNotWhitelisted
    /\ (pc = "sanitized" /\ opt.type = "fetch" /\ ~isTrusted /\ result.error = NoError) =>
           opt.parsed.protocol \in CustomSchemes

\* an untrusted http(s) fetch to an allowlisted host, refused for its protocol
C3_Witness == UntrustedHttpFetch /\ result.error = ErrUntrusted

\* the key _validateExternalService must use for the scheme of the request
ExpectedKey(scheme) ==
    CASE scheme \in {TABULAR, TABULARINFO} -> TABULAR
      [] scheme \in {GEOSHAPE, GEOLINE, MAPSNAPSHOT} -> GEOSHAPE
      [] OTHER -> scheme

\* the host _validateExternalService settles on
ChosenHost(list) == IF opt.parsed.isRelativeHost THEN list[1] ELSE MapHost(opt.parsed.host)

\* C8: _validateExternalService, keyed by the override scheme or the request's own,
\* has exactly three outcomes: the protocol-disabled error when the key has no
\* domain list, the host-not-allowed error when the chosen host fails the key's
\* allowlist, and otherwise a return with urlParts.host passing that allowlist,
\* the host being the list's first entry for a relative host and the resolved
\* host otherwise
C8_ThreeOutcomes ==
    (pc = "sanitized" /\ result.ext.called) =>
        /\ result.ext.key = ExpectedKey(opt.parsed.protocol)
        /\ \/ /\ _getProtocolDomains(result.ext.key) = Undefined
              /\ result.ext.error = ErrDisabled(result.ext.key)
           \/ /\ _getProtocolDomains(result.ext.key) # Undefined
              /\ ~InList(ChosenHost(_getProtocolDomains(result.ext.key)),
                         _getProtocolDomains(result.ext.key))
              /\ result.ext.error = ErrHostNotAllowed(result.ext.key)
           \/ /\ _getProtocolDomains(result.ext.key) # Undefined
              /\ result.ext.error = NoError
              /\ urlParts.host = ChosenHost(_getProtocolDomains(result.ext.key))
              /\ testHost(validators, result.ext.key, urlParts.host).ok

-----------------------------------------------------------------------------
(* SpecOpen: the open action over the titles, served one request after another *)

SeqsUpTo(S, n) == UNION {[1..k -> S] : k \in 0..n}

\* " " and "|" raw and escaped, a letter, a "%" that starts no escape
TitleChars == {"a", " ", "%20", "|", "%7C", "%"}
Titles == SeqsUpTo(TitleChars, MaxTitleLen)

OpenUrlForms ==
    {<<[scheme |-> s, inner |-> NoString], s>> : s \in {HTTP, HTTPS, WIKITITLE, WIKIAPI}}
    \cup {<<[scheme |-> NoString, inner |-> NoString], p>> : p \in {NoString, HTTPS}}

OpenRequests ==
    {Request(u[1], "open", u[2], host, FALSE, prefix \o title, query) :
        u \in OpenUrlForms, host \in Hosts, prefix \in {<<"/">>, WikiPath},
        title \in Titles, query \in {EmptyObject, ("action" :> <<"edit">>)}}

InitOpen ==
    /\ isTrusted = FALSE
    /\ useXhr = TRUE
    /\ domains = Domains(<<WP>>, <<MAPS>>, EmptyObject)
    /\ domainMap = EmptyObject
    /\ validators = EmptyObject
    /\ Idle

SanitizeOpen == pc = "idle" /\ \E o \in OpenRequests : Sanitize(o)

NextOpen == SanitizeOpen \/ Discard

SpecOpen == InitOpen /\ [][NextOpen]_vars

\* every occurrence of a replaced by b
ReplaceAll(s, a, b) == [i \in 1..Len(s) |-> IF s[i] = a THEN b ELSE s[i]]

OpenSanitized == pc = "sanitized" /\ opt.type = "open"

\* the host of the request is allowlisted for https: or http:
OpenHostListed == sanitizeHost(validators, opt.parsed.host).found

\* the scheme the open action switches on
OpenDeclared ==
    IF opt.parsed.protocol = NoString
    THEN sanitizeHost(validators, opt.parsed.host).protocol
    ELSE opt.parsed.protocol

\* a wikititle: or protocol-relative request: the whole pathname is the title
OpenRelative ==
    \/ opt.parsed.protocol \in {NoString, WIKITITLE}
    \/ StartsWithSlashes(opt.url) /\ opt.parsed.protocol \in {HTTP, HTTPS}

\* the decoded, trimmed title of a request whose pathname decodes
OpenedTitle ==
    IF OpenRelative
    THEN Substring(Trim(decodeURIComponent(opt.parsed.pathname)), 1)
    ELSE Substring(Trim(decodeURIComponent(opt.parsed.pathname)), 6)

OpenHasPipe ==
    \E i \in 1..Len(opt.parsed.pathname) : opt.parsed.pathname[i] \in {"|", "%7C"}

\* a percent-encoded component: no raw space, pipe, slash or percent sign
IsEncoded(s) == \A i \in 1..Len(s) : s[i] \notin {" ", "|", "/", "%"}

IsWikiTitlePath(s) == HasWikiPrefix(s) /\ IsEncoded(SubSeq(s, 4, Len(s)))

\* C4: when the open action succeeds, the pathname is /wiki/ followed by the
\* percent-encoding of the decoded, trimmed title with every space turned into an
\* underscore, so no encoded space is left, and the protocol is the one
\* sanitizeHost resolved for the host
C4_EverySpaceUnderscored ==
    (OpenSanitized /\ result.error = NoError) =>
        /\ urlParts.pathname =
               WikiPath \o encodeURIComponent(ReplaceAll(OpenedTitle, " ", "_"))
        /\ \A i \in 1..Len(urlParts.pathname) : urlParts.pathname[i] # "%20"
        /\ urlParts.protocol = sanitizeHost(validators, opt.parsed.host).protocol

-----------------------------------------------------------------------------
(* SpecSnapshot: mapsnapshot requests over the parameter values *)

\* a parameter value with the number it writes: num / den, none when not numeric
Number(text, integer, num, den) ==
    [text |-> text, numeric |-> TRUE, integer |-> integer, num |-> num, den |-> den]
NotNumber(text) ==
    [text |-> text, numeric |-> FALSE, integer |-> FALSE, num |-> 0, den |-> 1]

NumberTable ==
    { Number(<<"0">>, TRUE, 0, 1), Number(<<"1">>, TRUE, 1, 1),
      Number(<<"-", "1">>, TRUE, -1, 1), Number(<<"2", "2">>, TRUE, 22, 1),
      Number(<<"2", "3">>, TRUE, 23, 1), Number(<<"4", "0", "9", "6">>, TRUE, 4096, 1),
      Number(<<"4", "0", "9", "7">>, TRUE, 4097, 1), Number(<<"1", ".", "5">>, FALSE, 15, 10),
      Number(<<"9", "0">>, TRUE, 90, 1), Number(<<"-", "9", "0">>, TRUE, -90, 1),
      Number(<<"9", "0", ".", "5">>, FALSE, 905, 10),
      Number(<<"-", "9", "0", ".", "5">>, FALSE, -905, 10),
      Number(<<"1", "8", "0">>, TRUE, 180, 1), Number(<<"-", "1", "8", "0">>, TRUE, -180, 1),
      Number(<<"1", "8", "0", ".", "0", "1">>, FALSE, 18001, 100),
      Number(<<"-", "1", "8", "1">>, TRUE, -181, 1),
      NotNumber(<<"x">>), NotNumber(<<"-">>), NotNumber(NoString) }

Texts(nums) == {n.text : n \in {m \in NumberTable : m.numeric /\ <<m.num, m.den>> \in nums}}

\* the values tried for each parameter; Undefined for a parameter not given
WidthValues == {Undefined, <<"x">>} \cup Texts({<<0, 1>>, <<1, 1>>, <<4096, 1>>, <<4097, 1>>, <<15, 10>>})
HeightValues == {Undefined, <<"-">>} \cup Texts({<<1, 1>>, <<4097, 1>>})
ZoomValues == {Undefined} \cup Texts({<<-1, 1>>, <<0, 1>>, <<22, 1>>, <<23, 1>>})
LatValues == {Undefined, <<"x">>} \cup Texts({<<-90, 1>>, <<-905, 10>>, <<90, 1>>, <<905, 10>>})
LonValues == {Undefined} \cup Texts({<<-180, 1>>, <<-181, 1>>, <<180, 1>>, <<18001, 100>>})
StyleAlphabet == {"a", "-", "A"}
StyleValues == {Undefined} \cup (SeqsUpTo(StyleAlphabet, MaxStyleLen) \ {NoString})

Param(name, value) == IF value = Undefined THEN EmptyObject ELSE (name :> value)

SnapshotQueries ==
    {Param("width", w) @@ Param("height", h) @@ Param("zoom", z) @@ Param("lat", lat)
     @@ Param("lon", lon) @@ Param("style", st) :
        w \in WidthValues, h \in HeightValues, z \in ZoomValues, lat \in LatValues,
        lon \in LonValues, st \in StyleValues}

SnapshotRequests ==
    {Request([scheme |-> MAPSNAPSHOT, inner |-> NoString], "fetch", MAPSNAPSHOT, MAPS,
             TRUE, <<"/">>, query) : query \in SnapshotQueries}
    \cup {Request([scheme |-> MAPSNAPSHOT, inner |-> NoString], "fetch", MAPSNAPSHOT, host,
                  FALSE, <<"/">>, SnapshotQuery) : host \in {MAPS, ENWP}}

InitSnapshot ==
    /\ isTrusted = FALSE
    /\ useXhr = TRUE
    /\ domains = Domains(<<WP, MAPS>>, Undefined, (GEOSHAPE :> <<MAPS>>))
    /\ domainMap = EmptyObject
    /\ validators = EmptyObject
    /\ Idle

SanitizeSnapshot == pc = "idle" /\ \E o \in SnapshotRequests : Sanitize(o)

NextSnapshot == SanitizeSnapshot \/ Discard

SpecSnapshot == InitSnapshot /\ [][NextSnapshot]_vars

\* what a parameter text means as a decimal literal
Meaning(text) == CHOOSE n \in NumberTable : n.text = text

\* the parameters of a snapshot in the order they are validated
SnapshotFields ==
    << [name |-> "width", min |-> 1, max |-> 4096, integer |-> TRUE],
       [name |-> "height", min |-> 1, max |-> 4096, integer |-> TRUE],
       [name |-> "zoom", min |-> 0, max |-> 22, integer |-> TRUE],
       [name |-> "lat", min |-> -90, max |-> 90, integer |-> FALSE],
       [name |-> "lon", min |-> -180, max |-> 180, integer |-> FALSE] >>

\* the parameter is missing, not a number of its kind, or outside its range
Offends(query, f) ==
    \/ f.name \notin DOMAIN query
    \/ ~Meaning(query[f.name]).numeric
    \/ f.integer /\ ~Meaning(query[f.name]).integer
    \/ Meaning(query[f.name]).num < f.min * Meaning(query[f.name]).den
    \/ Meaning(query[f.name]).num > f.max * Meaning(query[f.name]).den

Offenders(query) == {i \in 1..Len(SnapshotFields) : Offends(query, SnapshotFields[i])}

FirstOffender(query) == SnapshotFields[Min(Offenders(query))].name

\* a mapsnapshot request that got through _validateExternalService
SnapshotChecked ==
    /\ pc = "sanitized"
    /\ opt.parsed.protocol = MAPSNAPSHOT
    /\ result.ext.called
    /\ result.ext.error = NoError

SnapshotPath(style, query) ==
    <<"/", "img", "/">> \o style \o <<",">> \o query["zoom"] \o <<",">> \o query["lat"]
    \o <<",">> \o query["lon"] \o <<",">> \o query["width"] \o <<"x">> \o query["height"]
    \o <<"@2x.png">>

\* C6: a mapsnapshot request that passes the external-service check and has no
\* style succeeds exactly when width and height are integers in 1..4096, zoom an
\* integer in 0..22, lat a number in -90..90 and lon a number in -180..180, all
\* present; then the path is /img/osm-intl,<zoom>,<lat>,<lon>,<width>x<height>@2x.png
\* and the query is empty; otherwise the error names the first offending
\* parameter in the order width, height, zoom, lat, lon
C6_SnapshotParameters ==
    (SnapshotChecked /\ "style" \notin DOMAIN opt.parsed.query) =>
        IF Offenders(opt.parsed.query) = {}
        THEN /\ result.error = NoError
             /\ urlParts.pathname = SnapshotPath(<<"osm-intl">>, opt.parsed.query)
             /\ urlParts.query = EmptyObject
        ELSE result.error \in {ErrNotSet(FirstOffender(opt.parsed.query)),
                               ErrNotNumber(FirstOffender(opt.parsed.query)),
                               ErrNotValid(FirstOffender(opt.parsed.query))}

\* a snapshot with every parameter on the edge of its range, accepted
C6_Witness ==
    /\ SnapshotChecked /\ "style" \notin DOMAIN opt.parsed.query
    /\ result.error = NoError
    /\ "width" \in DOMAIN opt.parsed.query
    /\ opt.parsed.query["width"] = <<"4", "0", "9", "6">>
    /\ opt.parsed.query["zoom"] = <<"0">>
    /\ opt.parsed.query["lat"] = <<"-", "9", "0">>
    /\ opt.parsed.query["lon"] = <<"1", "8", "0">>

\* C7: with otherwise valid parameters, a style of one or more characters is
\* accepted exactly when all its characters are letters a-z, digits, dash or
\* underscore, and an accepted style is the first component of the /img/ path
C7_StyleOfAnyLength ==
    (SnapshotChecked /\ "style" \in DOMAIN opt.parsed.query
     /\ Offenders(opt.parsed.query) = {}) =>
        /\ result.error = NoError <=>
               \A i \in 1..Len(opt.parsed.query["style"]) :
                   opt.parsed.query["style"][i] \in StyleChars
        /\ result.error = NoError =>
               urlParts.pathname = SnapshotPath(opt.parsed.query["style"], opt.parsed.query)
        /\ result.error # NoError => result.error = ErrStyle

-----------------------------------------------------------------------------
(* SpecLoader: datalib.load.loader and the transport's reply *)

Rows(kind, val) == [kind |-> kind, val |-> val]
Headers(kind, val) == [kind |-> kind, val |-> val]

Payload(json, error, warnings, content, rows, headers, columns, bindings) ==
    [json |-> json, error |-> error, warnings |-> warnings, content |-> content,
     rows |-> rows, headers |-> headers, columns |-> columns, bindings |-> bindings]

NoPayload(json) ==
    Payload(json, FALSE, FALSE, FALSE, Rows("missing", << >>), Headers("missing", << >>),
            FALSE, "missing")

Payloads ==
    {NoPayload("invalid"), NoPayload("null")}
    \cup {Payload("object", error, warnings, content, rows, headers, columns, bindings) :
            error \in BOOLEAN, warnings \in BOOLEAN, content \in BOOLEAN,
            rows \in {Rows("missing", << >>), Rows("array", << >>), Rows("array", << <<"1">> >>)},
            headers \in {Headers("missing", << >>), Headers("array", <<"a">>)},
            columns \in BOOLEAN, bindings \in {"missing", "notarray", "array"}}

LoaderRequests ==
    {Request([scheme |-> s, inner |-> NoString], "fetch", s, host, FALSE,
             <<"/", "api", "/", "a">>, ("query" :> <<"q">>)) :
        s \in {WIKIAPI, WIKIRAW, TABULAR, TABULARINFO, WIKIDATASPARQL, WIKIREST, HTTPS, FTP},
        host \in {ENWP, EVIL}}

InitLoader ==
    /\ isTrusted = FALSE
    /\ useXhr \in BOOLEAN
    /\ domains = Domains(<<WP>>, Undefined, Services(ColonKeys, <<ENWP>>))
    /\ domainMap = EmptyObject
    /\ validators = EmptyObject
    /\ Idle

Loader == pc = "idle" /\ \E o \in LoaderRequests, cb \in BOOLEAN : Load(o, cb)

Transport ==
    pc = "fetching" /\ \E error \in {NoError, ErrTransport}, data \in Payloads : Reply(error, data)

NextLoader == Loader \/ Transport \/ Discard

SpecLoader == InitLoader /\ [][NextLoader]_vars

\* C2: when sanitizeUrl throws for a request, the loader calls neither
\* datalib.load.xhr nor datalib.load.http for it and hands the error over exactly
\* once, to the callback or, without a callback, by throwing it; when sanitizeUrl
\* returns, the one transport useXhr selects is called once with the sanitized
\* url and the other not at all
C2_FailClosedLoader ==
    pc \in {"fetching", "done"} =>
        IF result.error # NoError
        THEN /\ pc = "done"
             /\ xhrCalls = << >>
             /\ httpCalls = << >>
             /\ hasCallback =>
                    /\ cbCalls = << [error |-> result.error, data |-> UndefinedData] >>
                    /\ thrown = << >>
             /\ ~hasCallback =>
                    /\ thrown = << result.error >>
                    /\ cbCalls = << >>
        ELSE /\ xhrCalls = IF useXhr THEN << result.url >> ELSE << >>
             /\ httpCalls = IF useXhr THEN << >> ELSE << result.url >>
             /\ result.url # NoString

\* a request sanitizeUrl refused, its error handed to the callback
C2_Witness ==
    /\ pc = "done"
    /\ result.error # NoError
    /\ hasCallback
    /\ Len(cbCalls) = 1
    /\ xhrCalls = << >> /\ httpCalls = << >>

\* the transport replied to a loader that was given a callback
Replied == pc = "done" /\ result.error = NoError /\ hasCallback

\* the reply carried no transport error and a payload with warnings and no error
WarningsOnly ==
    /\ cbCalls[1].error # ErrTransport
    /\ payload.json = "object"
    /\ payload.warnings
    /\ ~payload.error

ApiTags == {WIKIAPI, WIKIRAW, TABULAR, TABULARINFO}

\* C9 as claimed: dataParser calls the callback exactly once, an error always
\* comes with undefined data, and a payload with warnings and no error (read for
\* the tags whose payload is an API response) is logged once and yields data
\* with no error
C9_WarningsAlwaysYieldData ==
    Replied =>
        /\ Len(cbCalls) = 1
        /\ cbCalls[1].error # NoError => cbCalls[1].data = UndefinedData
        /\ (WarningsOnly /\ opt.graphProtocol \in ApiTags) =>
               /\ logged = 1
               /\ cbCalls[1].error = NoError
               /\ cbCalls[1].data # UndefinedData

\* C9 as amended: dataParser calls the callback exactly once, and an error always
\* comes with undefined data; a payload with warnings and no error is logged
\* once when the tag is wikiapi:, wikiraw:, tabular: or tabularinfo: and not at
\* all for the other tags, the warnings change neither the error nor the kind of
\* data passed on, and for wikiapi: the data is passed with no error
C9_WarningsNeverAbort ==
    Replied =>
        /\ Len(cbCalls) = 1
        /\ cbCalls[1].error # NoError => cbCalls[1].data = UndefinedData
        /\ cbCalls[1].error = NoError => cbCalls[1].data # UndefinedData
        /\ WarningsOnly =>
               /\ logged = IF opt.graphProtocol \in ApiTags THEN 1 ELSE 0
               /\ cbCalls[1].error =
                      dataParser(NoError, [payload EXCEPT !.warnings = FALSE], opt).error
               /\ cbCalls[1].data.kind =
                      dataParser(NoError, [payload EXCEPT !.warnings = FALSE], opt).data.kind
               /\ opt.graphProtocol = WIKIAPI =>
                      /\ cbCalls[1].error = NoError
                      /\ cbCalls[1].data.kind = "json"

\* a wikiraw: reply with warnings and no page content: logged once, and the
\* error passed on with undefined data
C9_Witness ==
    /\ Replied
    /\ opt.graphProtocol = WIKIRAW
    /\ WarningsOnly
    /\ logged = 1
    /\ cbCalls = << [error |-> ErrContent, data |-> UndefinedData] >>

-----------------------------------------------------------------------------
(* SpecTabular: dataParser on tabular: payloads *)

Cells == {"1", "2"}
ColumnNames == {"a", "b"}

\* header names are distinct, as in a tabular page
HeaderLists ==
    {h \in SeqsUpTo(ColumnNames, MaxCols) : \A i, j \in 1..Len(h) : h[i] = h[j] => i = j}

RowLists == SeqsUpTo(SeqsUpTo(Cells, MaxCols), MaxRows)

TabularPayloads ==
    {Payload("object", FALSE, warnings, FALSE, rows, headers, TRUE, "missing") :
        warnings \in BOOLEAN,
        rows \in {Rows("missing", << >>), Rows("object", << >>)}
                 \cup {Rows("array", r) : r \in RowLists},
        headers \in {Headers("missing", << >>), Headers("number", << >>)}
                    \cup {Headers(k, h) : k \in {"array", "string"}, h \in HeaderLists}}

TabularOpt == [NoOpt EXCEPT !.type = "fetch", !.graphProtocol = TABULAR]

InitTabular ==
    /\ isTrusted = FALSE
    /\ useXhr = TRUE
    /\ domains = Domains(<<WP>>, Undefined, Services(ColonKeys, <<ENWP>>))
    /\ domainMap = EmptyObject
    /\ validators = EmptyObject
    /\ Idle

DataParser == pc = "idle" /\ \E data \in TabularPayloads : Parse(NoError, data, TabularOpt)

NextTabular == DataParser \/ Discard

SpecTabular == InitTabular /\ [][NextTabular]_vars

\* the names of a header list
HeaderSet(h) == {h[i] : i \in 1..Len(h)}

\* C10: a tabular: payload whose rows and headers are arrays yields one record
\* per row, in row order, whose keys are exactly the headers and whose value for
\* headers[i] is row[i]; every other shape (rows or headers missing or not an
\* array) fails with the invalid-tabular-shape error
C10_TabularShape ==
    (pc = "done" /\ opt.graphProtocol = TABULAR) =>
        IF payload.rows.kind = "array" /\ payload.headers.kind = "array"
        THEN /\ cbCalls[1].error = NoError
             /\ cbCalls[1].data.kind = "records"
             /\ Len(cbCalls[1].data.val) = Len(payload.rows.val)
             /\ \A r \in 1..Len(payload.rows.val) :
                    /\ DOMAIN cbCalls[1].data.val[r] = HeaderSet(payload.headers.val)
                    /\ \A i \in 1..Len(payload.headers.val) :
                           cbCalls[1].data.val[r][payload.headers.val[i]] =
                               Cell(payload.rows.val[r], i)
        ELSE cbCalls[1] = [error |-> ErrTabular, data |-> UndefinedData]

-----------------------------------------------------------------------------
(* SpecTestHost: direct calls of testHost, one after another, on one wrapper *)

SUBMAPS == <<"a", "maps", "wikimedia", "org">>

\* https: under its colon-suffixed key, http under its bare key, and the services
\* not configured, configured under either kind of key, or some of them only
TestHostDomains == {Domains(<<WP>>, <<MAPS>>, services) : services \in ServiceConfigs}

\* schemes with the colon, one without it, and one the wrapper has no list for
TestHostProtocols == {HTTPS, HTTP, GEOSHAPE, <<"geoshape">>, FTP}

TestHostHosts == {ENWP, SUBMAPS, MAPS}

InitTestHost ==
    /\ isTrusted = FALSE
    /\ useXhr = TRUE
    /\ domains \in TestHostDomains
    /\ domainMap = EmptyObject
    /\ validators = EmptyObject
    /\ Idle

TestHost ==
    /\ Len(hostTests) < MaxCalls
    /\ \E protocol \in TestHostProtocols, host \in TestHostHosts : TestHostCall(protocol, host)

NextTestHost == TestHost

SpecTestHost == InitTestHost /\ [][NextTestHost]_vars

\* the scheme has a domain list under its colon-suffixed or its bare key
Configured(protocol) == _getProtocolDomains(protocol) # Undefined

\* C11: after any sequence of testHost calls on one wrapper, this.validators has
\* an entry only for schemes with a configured domain list (under the
\* colon-suffixed or the bare key); a call for a scheme with no configured list
\* answered false and left this.validators as it was; no call replaced or
\* removed an entry that existed before it; and two calls with the same scheme
\* and host got the same answer
C11_ValidatorsCache ==
    /\ \A p \in DOMAIN validators : Configured(p)
    /\ \A i \in 1..Len(hostTests) :
           /\ ~Configured(hostTests[i].protocol) =>
                  /\ ~hostTests[i].ok
                  /\ hostTests[i].after = hostTests[i].before
           /\ \A p \in DOMAIN hostTests[i].before :
                  /\ p \in DOMAIN hostTests[i].after
                  /\ hostTests[i].after[p] = hostTests[i].before[p]
           /\ hostTests[i].before =
                  IF i = 1 THEN EmptyObject ELSE hostTests[i - 1].after
           /\ \A j \in 1..Len(hostTests) :
                  (hostTests[j].protocol = hostTests[i].protocol
                   /\ hostTests[j].host = hostTests[i].host) =>
                      hostTests[j].ok = hostTests[i].ok
    /\ hostTests # << >> => validators = hostTests[Len(hostTests)].after

\* a scheme configured under its bare key asked twice about a host it allows,
\* with a call for a scheme that has no list in between
C11_Witness ==
    /\ Len(hostTests) = 3
    /\ hostTests[1].protocol = GEOSHAPE
    /\ GEOSHAPE \notin DOMAIN domains
    /\ hostTests[1].ok
    /\ hostTests[2].protocol = FTP
    /\ ~hostTests[2].ok
    /\ hostTests[3].protocol = GEOSHAPE
    /\ hostTests[3].host = hostTests[1].host
    /\ hostTests[3].ok
    /\ DOMAIN validators = {GEOSHAPE}

====
